---- MODULE Spec2Model ----
(***************************************************************************)
(* Disgordian: a Discord gateway client.  The repository holds several     *)
(* gateway session programs, modelled here and told apart by `build`:      *)
(*                                                                         *)
(*   "mutex"   src/main.go: main() runs the handshake and the inbound      *)
(*             loop, SendHeartbeats and SendLoop are goroutines, seq_no is *)
(*             shared under seq_lock, ShutDown is deferred through         *)
(*             ShutDownOnce.                                               *)
(*   "select"  src/unnamed/part_000 lines 1-335: init() runs the           *)
(*             handshake, main() is one select loop over RecvQueue,        *)
(*             SendQueue, the pacemaker ticker and sigchan, ReadBuffer is  *)
(*             the reading goroutine, handleMessage runs per Dispatch.     *)
(*   "legacy"  src/unnamed/part_000 lines 337-553, an older main() that    *)
(*             decodes into a map[string]interface{}: its inbound loop     *)
(*             (lines 532-552) and deferred ws.Close(), from the state     *)
(*             its handshake leaves at line 531.  Its SendHeartbeats and   *)
(*             SendLoop (lines 398-417) are those of src/main.go.          *)
(*                                                                         *)
(* The peer, the application senders and the operating system (SIGINT) are *)
(* the environment.                                                        *)
(***************************************************************************)
EXTENDS Integers, Sequences, FiniteSets, Bags

VARIABLES
    build,            \* which program runs: "mutex", "select" or "legacy"
    proc,             \* the process: "running", "exited", "crashed", "killed"
    pc,               \* position of the main goroutine
    panicking,        \* main() is unwinding a panic (deferred calls run)
    ws,               \* the websocket: "open" or "closed" (ws.Close was called)
    closeCount,       \* number of calls of ws.Close
    peer,             \* the remote end: "up" or "gone"
    nread,            \* envelopes delivered after the handshake
    raw,              \* the envelope most recently decoded, as sent
    payload,          \* the Payload variable the reader decodes into
    hb_length,        \* heartbeat interval taken from Hello
    seq_no,           \* the tracked sequence number
    seq_lock,         \* holder of seq_lock: "free", "main" or "hb"
    hello,            \* ghost: the first envelope, as the peer sent it
    ready,            \* ghost: how the READY envelope was taken in
    lastSeq,          \* ghost: s of the last envelope with an s that the
                      \*   inbound loop has processed after READY
    hbpc,             \* position of SendHeartbeats
    temp,             \* SendHeartbeats' formatted heartbeat (its d)
    hbCount,          \* heartbeats constructed so far
    slpc,             \* position of SendLoop
    slmsg,            \* the message SendLoop took from the channel
    SendQueueClosed,  \* close(SendQueue) happened
    ShutDownOnce,     \* sync.Once: its function has run
    appNext,          \* per application sender: messages handed over
    wire,             \* messages written to the open connection, in order
    rbpc,             \* position of ReadBuffer
    RecvQueueClosed,  \* close(RecvQueue) happened
    notify,           \* signal.Notify(sigchan, os.Interrupt) is in force
    sigchan,          \* an interrupt is buffered in sigchan
    handlers          \* Payloads handed to `go handleMessage`, not yet run

vars == <<build, proc, pc, panicking, ws, closeCount, peer, nread, raw,
          payload, hb_length, seq_no, seq_lock, hello, ready, lastSeq, hbpc,
          temp, hbCount,
          slpc, slmsg, SendQueueClosed, ShutDownOnce, appNext, wire,
          rbpc, RecvQueueClosed, notify, sigchan, handlers>>

(***************************************************************************)
(* Bounds of the model.                                                    *)
(***************************************************************************)
MaxSeq == 2          \* sequence numbers on the wire are 0..MaxSeq
MaxInbound == 1      \* envelopes the peer delivers after the handshake
MaxHeartbeats == 1   \* heartbeat ticks in one session
MaxSubmit == 2       \* messages the application sender submits

Submitters == {"A"}

(***************************************************************************)
(* Envelopes.  A field that the JSON text does not carry is Absent (op, s) *)
(* or "-" (t, d).  d is one of: "null", "hb41250" and "hb0" (an object     *)
(* with heartbeat_interval 41250 or 0), "ping" (a message object whose     *)
(* content is "!ping"), "text" (any other object).                         *)
(***************************************************************************)
Absent == -1
\* "s": null, which json.Unmarshal skips for an int field of a struct and
\* stores as a nil entry in a map
Null == Absent - 1
NoSeq(e) == e.s \in {Absent, Null}

Envelope(o, n, tg, dd) == [op |-> o, s |-> n, t |-> tg, d |-> dd]

HelloEnvelopes ==
    {Envelope(10, Absent, "-", dd) : dd \in {"hb41250", "hb0", "text", "-"}}
    \cup {Envelope(Absent, Absent, "-", "hb41250")}

\* op = 0 with every s; src/main.go never reads t or d of these.
ReadyEnvelopes ==
    {Envelope(0, n, "READY", "text") : n \in {Absent} \cup (0..MaxSeq)}

\* op = 0 with the t and d that handleMessage of part_000 tells apart; the
\* s of an event is handled as that of READY, and is left out here.
EventEnvelopes ==
    {Envelope(0, n, td[1], td[2]) :
        n \in {Absent},
        td \in {<<"MESSAGE_CREATE", "ping">>, <<"MESSAGE_CREATE", "null">>,
                <<"TYPING_START", "text">>}}

\* a heartbeat ack, an envelope with no field at all
OtherEnvelopes ==
    {Envelope(11, Null, "-", "-"), Envelope(Absent, Absent, "-", "-")}

Envelopes ==
    HelloEnvelopes \cup ReadyEnvelopes \cup EventEnvelopes \cup OtherEnvelopes

\* What the peer sends: anything as its first envelope and no Hello later;
\* events with t and d of their own only to the build that reads them.
Inbound(b, first) ==
    IF first THEN Envelopes
    ELSE IF b = "select"
         THEN ReadyEnvelopes \cup EventEnvelopes \cup OtherEnvelopes
         ELSE ReadyEnvelopes \cup OtherEnvelopes

ZeroPayload == [Op |-> Absent, S |-> 0, T |-> "", D |-> "nil"]
\* raw when Receive returned an error, or nothing was received yet
NoEnvelope == Envelope(Absent, Absent, "-", "none")

(***************************************************************************)
(* Ghosts.  ready.got is "no" until the envelope after Identify is taken   *)
(* in, then "yes" (with its s, and the number of heartbeats constructed    *)
(* before) or "err" (the read of it failed).  lastSeq is Absent until the  *)
(* inbound loop has processed a later envelope that has an s, Unordered    *)
(* once such an envelope did not exceed the one before it.                 *)
(***************************************************************************)
Unordered == Null - 1
NoReady == [got |-> "no", s |-> Absent, hb |-> 0]
ReadyErr == [got |-> "err", s |-> Absent, hb |-> 0]
ReadyGot(e, n) ==
    [got |-> "yes", s |-> IF NoSeq(e) THEN Absent ELSE e.s, hb |-> n]

NextLast(last, e) ==
    IF NoSeq(e) \/ last = Unordered THEN last
    ELSE IF last # Absent /\ e.s <= last THEN Unordered
    ELSE e.s

(***************************************************************************)
(* json.Unmarshal into an existing Payload: a field the text does not      *)
(* carry keeps the value an earlier envelope left there.                   *)
(* In src/main.go D is a map: null makes it nil, an object is merged into  *)
(* the existing map, so an entry of an earlier object stays.  Only the     *)
(* heartbeat_interval entry is ever read, so the map is kept as that       *)
(* entry: "nil" (no map), "nokey", "hb0", "hb41250".                       *)
(***************************************************************************)
MergeMap(old, dd) ==
    CASE dd = "-" -> old
      [] dd = "null" -> "nil"
      [] dd \in {"hb0", "hb41250"} -> dd
      [] OTHER -> IF old \in {"hb0", "hb41250"} THEN old ELSE "nokey"

\* src/unnamed/part_000: D is *json.RawMessage, replaced as a whole.
SetRaw(old, dd) ==
    CASE dd = "-" -> old
      [] dd = "null" -> "nil"
      [] OTHER -> dd

\* A decoder that marks a missing s with Absent instead of keeping the
\* value that is there.
DecodeSentinel(b, p, e) ==
    [Op |-> IF e.op = Absent THEN p.Op ELSE e.op,
     S  |-> IF NoSeq(e) THEN Absent ELSE e.s,
     T  |-> IF e.t = "-" THEN p.T ELSE e.t,
     D  |-> IF b = "mutex" THEN MergeMap(p.D, e.d) ELSE SetRaw(p.D, e.d)]

Decode(b, p, e) ==
    [Op |-> IF e.op = Absent THEN p.Op ELSE e.op,
     S  |-> IF e.s = Absent \/ (e.s = Null /\ b # "legacy") THEN p.S
            ELSE IF e.s = Null THEN Absent
            ELSE e.s,
     T  |-> IF e.t = "-" THEN p.T ELSE e.t,
     D  |-> IF b = "mutex" THEN MergeMap(p.D, e.d) ELSE SetRaw(p.D, e.d)]

(***************************************************************************)
(* The heartbeat interval read from the Hello payload.                     *)
(*   mutex:  *payload.D["heartbeat_interval"] dereferences nil when the    *)
(*           map is nil or has no such entry.                              *)
(*   select: *payload.D dereferences nil when D is nil; an object without  *)
(*           the field leaves Heartbeat_interval 0.                        *)
(***************************************************************************)
HelloNilDeref(b, p) ==
    IF b = "mutex" THEN p.D \in {"nil", "nokey"} ELSE p.D = "nil"

HeartbeatInterval(p) ==
    IF p.D = "hb41250" THEN 41250 ELSE 0

\* The handshake's checks without the test for a zero interval.
HelloPanicsNoZeroCheck(b, p) ==
    \/ p.Op = Absent
    \/ HelloNilDeref(b, p)

\* The handshake's checks on the first envelope: TRUE when it panics.
HelloPanics(b, p) ==
    \/ p.Op = Absent
    \/ HelloNilDeref(b, p)
    \/ HeartbeatInterval(p) = 0

(***************************************************************************)
(* Messages on the outbound side.  `from` is who produced it ("login",     *)
(* "hb" or an application sender), n its number among that producer's      *)
(* messages, d the sequence number a heartbeat carries.                    *)
(***************************************************************************)
Msg(f, k, v) == [from |-> f, n |-> k, d |-> v]
NoMsg == Msg("none", 0, 0)
LoginMsg == Msg("login", 1, 0)

\* websocket.Message.Send: the text reaches the wire only on a connection
\* that is open at both ends; the error it returns is dropped by every caller.
Connected == ws = "open" /\ peer = "up"

Send(m) ==
    wire' = IF Connected THEN Append(wire, m) ELSE wire


(***************************************************************************)
(* Groups of variables, for UNCHANGED.                                     *)
(***************************************************************************)
connVars == <<ws, closeCount>>
rdVars == <<nread, raw, payload>>
seqVars == <<seq_no, seq_lock>>
ghostVars == <<hello, ready, lastSeq>>
hbVars == <<hbpc, temp, hbCount>>
slVars == <<slpc, slmsg>>
outVars == <<wire>>
selVars == <<rbpc, RecvQueueClosed, notify, sigchan, handlers>>

Builds == {"mutex", "select", "legacy"}

\* "mutex" and "select" start after websocket.Dial.
InitDialled ==
    /\ build \in {"mutex", "select"}
    /\ pc = "hello"
    /\ raw = NoEnvelope
    /\ payload = ZeroPayload
    /\ hb_length = 0
    /\ seq_no = 0
    /\ hello = NoEnvelope
    /\ ready = NoReady
    /\ wire = <<>>

\* "legacy" starts where its handshake has stored the s of READY (lines
\* 509-524; a READY without s panics at line 519) and main() enters the
\* loop.  payload is the map, kept as the entries of its keys.
InitLegacy ==
    /\ build = "legacy"
    /\ pc = "recv"
    /\ \E n \in 0..MaxSeq :
          /\ raw = Envelope(0, n, "READY", "text")
          /\ payload = [Op |-> 0, S |-> n, T |-> "READY", D |-> "text"]
          /\ seq_no = n
          /\ ready = ReadyGot(raw, 0)
    /\ hb_length = 41250
    /\ hello = Envelope(10, Absent, "-", "hb41250")
    /\ wire = <<LoginMsg>>

Init ==
    /\ build \in Builds
    /\ InitDialled \/ InitLegacy
    /\ proc = "running"
    /\ panicking = FALSE
    /\ ws = "open"
    /\ closeCount = 0
    /\ peer = "up"
    /\ nread = 0
    /\ seq_lock = "free"
    /\ lastSeq = Absent
    /\ hbpc = "off"
    /\ temp = 0
    /\ hbCount = 0
    /\ slpc = "off"
    /\ slmsg = NoMsg
    /\ SendQueueClosed = FALSE
    /\ ShutDownOnce = FALSE
    /\ appNext = [a \in Submitters |-> 0]
    /\ rbpc = "off"
    /\ RecvQueueClosed = FALSE
    /\ notify = FALSE
    /\ sigchan = FALSE
    /\ handlers = EmptyBag

(***************************************************************************)
(* websocket.JSON.Receive(ws, &payload).  It returns an envelope the peer  *)
(* sent, decoded into payload, or an error: the connection is closed, the  *)
(* frame is not JSON, or the peer has closed the connection, which the     *)
(* client learns here (payload is untouched by an error).  With nothing to *)
(* read on a live connection it blocks.                                    *)
(***************************************************************************)
ReceiveOk(e, first) ==
    /\ Connected
    /\ e \in Inbound(build, first)
    /\ peer' = peer
    /\ raw' = e
    /\ payload' = Decode(build, payload, e)

ReceiveErr ==
    /\ \/ peer' = peer
       \/ Connected /\ peer' = "gone"
    /\ raw' = NoEnvelope
    /\ payload' = payload

\* The reads of the handshake.
HandshakeReceive(first) ==
    /\ \/ \E e \in Envelopes : ReceiveOk(e, first)
       \/ ReceiveErr
    /\ nread' = nread

\* The reads after it, MaxInbound of them on a live connection.
LoopReceiveOk ==
    /\ nread < MaxInbound
    /\ nread' = nread + 1
    /\ \E e \in Envelopes : ReceiveOk(e, FALSE)

LoopReceiveErr ==
    /\ ReceiveErr
    /\ IF Connected /\ peer' = peer
       THEN nread < MaxInbound /\ nread' = nread + 1
       ELSE nread' = nread

Running(b) == proc = "running" /\ build = b

(***************************************************************************)
(* src/main.go, main(): the handshake.                                     *)
(***************************************************************************)
\* A panic in main(): the deferred ShutDownOnce.Do(ShutDown) runs, then the
\* process dies.
MainPanic == pc' = "deferred" /\ panicking' = TRUE

\* lines 162-174: receive the first payload, get the heartbeat interval.
MainHello ==
    /\ Running("mutex") /\ pc = "hello"
    /\ HandshakeReceive(TRUE)
    /\ IF HelloPanics(build, payload')
       THEN MainPanic /\ hb_length' = hb_length
       ELSE /\ hb_length' = HeartbeatInterval(payload')
            /\ pc' = "login"
            /\ panicking' = panicking
    /\ hello' = raw'
    /\ UNCHANGED <<build, proc, connVars, seqVars, ready, lastSeq, hbVars,
                   slVars, SendQueueClosed, ShutDownOnce, appNext, outVars,
                   selVars>>

\* The handshake going on without writing Identify.
MainLoginNotSent ==
    /\ Running("mutex") /\ pc = "login"
    /\ pc' = "ready"
    /\ UNCHANGED <<build, proc, panicking, connVars, peer, rdVars, hb_length,
                   seqVars, ghostVars, hbVars, slVars, SendQueueClosed, ShutDownOnce,
                   appNext, outVars, selVars>>

\* lines 176-193: send the Identify message.
MainLogin ==
    /\ Running("mutex") /\ pc = "login"
    /\ Send(LoginMsg)
    /\ pc' = "ready"
    /\ UNCHANGED <<build, proc, panicking, connVars, peer, rdVars, hb_length,
                   seqVars, ghostVars, hbVars, slVars, SendQueueClosed, ShutDownOnce,
                   appNext, selVars>>

\* lines 195-200: receive the READY message; the error of Receive is not
\* looked at, only payload.Op.
MainReady ==
    /\ Running("mutex") /\ pc = "ready"
    /\ HandshakeReceive(FALSE)
    /\ IF payload'.Op = Absent
       THEN MainPanic
       ELSE pc' = "ready_lock" /\ panicking' = panicking
    /\ ready' = IF raw' = NoEnvelope THEN ReadyErr ELSE ready
    /\ UNCHANGED <<build, proc, connVars, hb_length, seqVars, hello, lastSeq,
                   hbVars, slVars, SendQueueClosed, ShutDownOnce, appNext,
                   outVars, selVars>>

(***************************************************************************)
(* seq_lock, a sync.Mutex.                                                 *)
(***************************************************************************)
\* A Lock that does not wait for the holder.
LockNoWait(who) == seq_lock' = who

Lock(who) == seq_lock = "free" /\ seq_lock' = who
Unlock(who) == seq_lock' = "free"

\* READY handling that stores the opcode in place of the sequence number.
ReadySeqFromOp(p) == p.Op

\* The sequence number the inbound side stores for a decoded payload.
\* line 202 stores payload.S as it is; line 222 skips a zero.
ReadySeq(p) == p.S
LoopUpdates(p) == p.S # 0

\* line 201
MainReadyLock ==
    /\ Running("mutex") /\ pc = "ready_lock"
    /\ Lock("main")
    /\ pc' = "ready_write"
    /\ UNCHANGED <<build, proc, panicking, connVars, peer, rdVars, hb_length,
                   seq_no, ghostVars, hbVars, slVars, SendQueueClosed,
                   ShutDownOnce, appNext, outVars, selVars>>

\* line 202
MainReadyWrite ==
    /\ Running("mutex") /\ pc = "ready_write"
    /\ seq_no' = ReadySeq(payload)
    /\ ready' = IF ready.got = "err" THEN ready ELSE ReadyGot(raw, hbCount)
    /\ pc' = "ready_unlock"
    /\ UNCHANGED <<build, proc, panicking, connVars, peer, rdVars, hb_length,
                   seq_lock, hello, lastSeq, hbVars, slVars, SendQueueClosed, ShutDownOnce,
                   appNext, outVars, selVars>>

\* line 203
MainReadyUnlock ==
    /\ Running("mutex") /\ pc = "ready_unlock"
    /\ Unlock("main")
    /\ pc' = "log_seq"
    /\ UNCHANGED <<build, proc, panicking, connVars, peer, rdVars, hb_length,
                   seq_no, ghostVars, hbVars, slVars, SendQueueClosed,
                   ShutDownOnce, appNext, outVars, selVars>>

\* line 204: Debug.Printf reads seq_no without the lock.
MainLogSeq ==
    /\ Running("mutex") /\ pc = "log_seq"
    /\ pc' = "go_hb"
    /\ UNCHANGED <<build, proc, panicking, connVars, peer, rdVars, hb_length,
                   seqVars, ghostVars, hbVars, slVars, SendQueueClosed, ShutDownOnce,
                   appNext, outVars, selVars>>

\* line 207: go SendHeartbeats(ws, hb_length)
MainGoHeartbeats ==
    /\ Running("mutex") /\ pc = "go_hb"
    /\ hbpc' = "sleep"
    /\ pc' = "go_sl"
    /\ UNCHANGED <<build, proc, panicking, connVars, peer, rdVars, hb_length,
                   seqVars, ghostVars, temp, hbCount, slVars, SendQueueClosed,
                   ShutDownOnce, appNext, outVars, selVars>>

\* line 210: go SendLoop(ws, SendQueue)
MainGoSendLoop ==
    /\ Running("mutex") /\ pc = "go_sl"
    /\ slpc' = "range"
    /\ pc' = "recv"
    /\ UNCHANGED <<build, proc, panicking, connVars, peer, rdVars, hb_length,
                   seqVars, ghostVars, hbVars, slmsg, SendQueueClosed, ShutDownOnce,
                   appNext, outVars, selVars>>


(***************************************************************************)
(* src/main.go, main(): the inbound loop, lines 212-227.                   *)
(***************************************************************************)
\* lines 215-222: Receive; an error breaks the loop and main() returns
\* through its deferred call; a payload whose S is 0 is skipped.
MainRecv ==
    /\ Running("mutex") /\ pc = "recv"
    /\ \/ /\ LoopReceiveOk
          /\ IF LoopUpdates(payload')
             THEN pc' = "lock" /\ lastSeq' = lastSeq
             ELSE /\ pc' = "recv"
                  /\ lastSeq' = NextLast(lastSeq, raw')
       \/ /\ LoopReceiveErr
          /\ pc' = "deferred"
          /\ lastSeq' = lastSeq
    /\ UNCHANGED <<build, proc, panicking, connVars, hb_length, seq_no,
                   seq_lock, hello, ready, hbVars, slVars, SendQueueClosed, ShutDownOnce,
                   appNext, outVars, selVars>>

\* line 223
MainLock ==
    /\ Running("mutex") /\ pc = "lock"
    /\ Lock("main")
    /\ pc' = "write"
    /\ UNCHANGED <<build, proc, panicking, connVars, peer, rdVars, hb_length,
                   seq_no, ghostVars, hbVars, slVars, SendQueueClosed,
                   ShutDownOnce, appNext, outVars, selVars>>

\* line 224
MainWrite ==
    /\ Running("mutex") /\ pc = "write"
    /\ seq_no' = payload.S
    /\ lastSeq' = NextLast(lastSeq, raw)
    /\ pc' = "unlock"
    /\ UNCHANGED <<build, proc, panicking, connVars, peer, rdVars, hb_length,
                   seq_lock, hello, ready, hbVars, slVars, SendQueueClosed, ShutDownOnce,
                   appNext, outVars, selVars>>

\* line 225
MainUnlock ==
    /\ Running("mutex") /\ pc = "unlock"
    /\ Unlock("main")
    /\ pc' = "recv"
    /\ UNCHANGED <<build, proc, panicking, connVars, peer, rdVars, hb_length,
                   seq_no, ghostVars, hbVars, slVars, SendQueueClosed,
                   ShutDownOnce, appNext, outVars, selVars>>

(***************************************************************************)
(* src/main.go: defer ShutDownOnce.Do(ShutDown), and ShutDown.             *)
(***************************************************************************)
\* lines 116, 159: the deferred call, on return from main() or on its panic.
MainDeferred ==
    /\ Running("mutex") /\ pc = "deferred"
    /\ IF ShutDownOnce
       THEN pc' = "return" /\ ShutDownOnce' = ShutDownOnce
       ELSE pc' = "close_queue" /\ ShutDownOnce' = TRUE
    /\ UNCHANGED <<build, proc, panicking, connVars, peer, rdVars, hb_length,
                   seqVars, ghostVars, hbVars, slVars, SendQueueClosed, appNext, outVars,
                   selVars>>

\* line 112: close(SendQueue); closing a closed channel panics.
ShutDownCloseQueue ==
    /\ Running("mutex") /\ pc = "close_queue"
    /\ IF SendQueueClosed
       THEN proc' = "crashed" /\ pc' = pc /\ SendQueueClosed' = SendQueueClosed
       ELSE SendQueueClosed' = TRUE /\ pc' = "close_ws" /\ proc' = proc
    /\ UNCHANGED <<build, panicking, connVars, peer, rdVars, hb_length,
                   seqVars, ghostVars, hbVars, slVars, ShutDownOnce, appNext, outVars,
                   selVars>>

\* line 113: ws.Close()
ShutDownClose ==
    /\ Running("mutex") /\ pc = "close_ws"
    /\ ws' = "closed"
    /\ closeCount' = closeCount + 1
    /\ pc' = "return"
    /\ UNCHANGED <<build, proc, panicking, peer, rdVars, hb_length, seqVars, ghostVars,
                   hbVars, slVars, SendQueueClosed, ShutDownOnce, appNext,
                   outVars, selVars>>

\* main() is left: the process ends, and with it every goroutine.
MainReturn ==
    /\ Running("mutex") /\ pc = "return"
    /\ proc' = IF panicking THEN "crashed" ELSE "exited"
    /\ UNCHANGED <<build, pc, panicking, connVars, peer, rdVars, hb_length,
                   seqVars, ghostVars, hbVars, slVars, SendQueueClosed, ShutDownOnce,
                   appNext, outVars, selVars>>

(***************************************************************************)
(* src/main.go: SendHeartbeats, lines 88-98.                               *)
(***************************************************************************)
\* line 92: the sleep ends
HbSleep ==
    /\ Running("mutex") /\ hbpc = "sleep"
    /\ hbCount < MaxHeartbeats
    /\ hbpc' = "lock"
    /\ UNCHANGED <<build, proc, pc, panicking, connVars, peer, rdVars,
                   hb_length, seqVars, ghostVars, temp, hbCount, slVars, SendQueueClosed,
                   ShutDownOnce, appNext, outVars, selVars>>

\* line 93
HbLock ==
    /\ Running("mutex") /\ hbpc = "lock"
    /\ Lock("hb")
    /\ hbpc' = "format"
    /\ UNCHANGED <<build, proc, pc, panicking, connVars, peer, rdVars,
                   hb_length, seq_no, ghostVars, temp, hbCount, slVars,
                   SendQueueClosed, ShutDownOnce, appNext, outVars, selVars>>

\* line 94: temp := fmt.Sprintf(heartbeat_msg, seq_no)
HbFormat ==
    /\ Running("mutex") /\ hbpc = "format"
    /\ temp' = seq_no
    /\ hbCount' = hbCount + 1
    /\ hbpc' = "unlock"
    /\ UNCHANGED <<build, proc, pc, panicking, connVars, peer, rdVars,
                   hb_length, seqVars, ghostVars, slVars, SendQueueClosed, ShutDownOnce,
                   appNext, outVars, selVars>>

\* line 95
HbUnlock ==
    /\ Running("mutex") /\ hbpc = "unlock"
    /\ Unlock("hb")
    /\ hbpc' = "send"
    /\ UNCHANGED <<build, proc, pc, panicking, connVars, peer, rdVars,
                   hb_length, seq_no, ghostVars, temp, hbCount, slVars,
                   SendQueueClosed, ShutDownOnce, appNext, outVars, selVars>>

\* A send that does not wait for SendLoop to be at its receive, as on a
\* one-slot queue whose slot is overwritten.
ChanSendNoRendezvous(m) ==
    IF SendQueueClosed
    THEN proc' = "crashed" /\ UNCHANGED slVars
    ELSE /\ slpc \in {"range", "write"}
         /\ slmsg' = m
         /\ slpc' = "write"
         /\ proc' = proc

\* A send on SendQueue (unbuffered): it panics on a closed channel, and
\* otherwise completes when SendLoop is at its receive.
ChanSend(m) ==
    IF SendQueueClosed
    THEN proc' = "crashed" /\ UNCHANGED slVars
    ELSE /\ slpc = "range"
         /\ slmsg' = m
         /\ slpc' = "write"
         /\ proc' = proc

\* SendHeartbeats writing its text on the connection itself, a second writer
HbSendDirect ==
    /\ Running("mutex") /\ hbpc = "send"
    /\ Send(Msg("hb", hbCount, temp))
    /\ hbpc' = "sleep"
    /\ UNCHANGED <<build, proc, pc, panicking, connVars, peer, rdVars,
                   hb_length, seqVars, ghostVars, temp, hbCount, slVars,
                   SendQueueClosed, ShutDownOnce, appNext, selVars>>

\* line 96: SendQueue <- temp
HbSend ==
    /\ Running("mutex") /\ hbpc = "send"
    /\ ChanSend(Msg("hb", hbCount, temp))
    /\ hbpc' = IF SendQueueClosed THEN hbpc ELSE "sleep"
    /\ UNCHANGED <<build, pc, panicking, connVars, peer, rdVars, hb_length,
                   seqVars, ghostVars, temp, hbCount, SendQueueClosed, ShutDownOnce,
                   appNext, outVars, selVars>>

(***************************************************************************)
(* src/main.go: SendLoop, lines 100-107.                                   *)
(***************************************************************************)
\* lines 103-104: websocket.Message.Send(ws, msg)
SlSend ==
    /\ Running("mutex") /\ slpc = "write"
    /\ Send(slmsg)
    /\ slmsg' = NoMsg
    /\ slpc' = "range"
    /\ UNCHANGED <<build, proc, pc, panicking, connVars, peer, rdVars,
                   hb_length, seqVars, ghostVars, hbVars, SendQueueClosed, ShutDownOnce,
                   appNext, selVars>>

\* lines 102, 106: the range over a closed channel ends
SlExit ==
    /\ Running("mutex") /\ slpc = "range"
    /\ SendQueueClosed
    /\ slpc' = "done"
    /\ UNCHANGED <<build, proc, pc, panicking, connVars, peer, rdVars,
                   hb_length, seqVars, ghostVars, hbVars, slmsg, SendQueueClosed,
                   ShutDownOnce, appNext, outVars, selVars>>

(***************************************************************************)
(* src/unnamed/part_000, the older main(): the inbound loop, lines         *)
(* 532-552.  json.Unmarshal into the map that every read reuses keeps the  *)
(* entry of a key the text does not carry, as Decode does.                 *)
(***************************************************************************)
\* line 546: temp, ok = payload["s"].(float64)
LegacyOk(p) == p.S # Absent

\* lines 534-550: Receive (an error breaks the loop), json.Unmarshal (text
\* that is not JSON panics), the test of the s entry.
LegacyRecv ==
    /\ Running("legacy") /\ pc = "recv"
    /\ \/ /\ LoopReceiveOk
          /\ IF LegacyOk(payload')
             THEN pc' = "lock" /\ lastSeq' = lastSeq
             ELSE pc' = "recv" /\ lastSeq' = NextLast(lastSeq, raw')
          /\ panicking' = panicking
       \/ /\ LoopReceiveErr
          /\ pc' = "return"
          /\ panicking' = (Connected /\ peer' = peer)
          /\ lastSeq' = lastSeq
    /\ UNCHANGED <<build, proc, connVars, hb_length, seq_no, seq_lock, hello,
                   ready, hbVars, slVars, SendQueueClosed, ShutDownOnce,
                   appNext, outVars, selVars>>

\* line 547
LegacyLock ==
    /\ Running("legacy") /\ pc = "lock"
    /\ Lock("main")
    /\ pc' = "write"
    /\ UNCHANGED <<build, proc, panicking, connVars, peer, rdVars, hb_length,
                   seq_no, ghostVars, hbVars, slVars, SendQueueClosed,
                   ShutDownOnce, appNext, outVars, selVars>>

\* line 548: seq_no = int(temp)
LegacyWrite ==
    /\ Running("legacy") /\ pc = "write"
    /\ seq_no' = payload.S
    /\ lastSeq' = NextLast(lastSeq, raw)
    /\ pc' = "unlock"
    /\ UNCHANGED <<build, proc, panicking, connVars, peer, rdVars, hb_length,
                   seq_lock, hello, ready, hbVars, slVars, SendQueueClosed,
                   ShutDownOnce, appNext, outVars, selVars>>

\* line 549
LegacyUnlock ==
    /\ Running("legacy") /\ pc = "unlock"
    /\ Unlock("main")
    /\ pc' = "recv"
    /\ UNCHANGED <<build, proc, panicking, connVars, peer, rdVars, hb_length,
                   seq_no, ghostVars, hbVars, slVars, SendQueueClosed,
                   ShutDownOnce, appNext, outVars, selVars>>

\* line 461: the deferred ws.Close(), on return from main() or on its panic.
LegacyClose ==
    /\ Running("legacy") /\ pc = "return"
    /\ ws' = "closed"
    /\ closeCount' = closeCount + 1
    /\ proc' = IF panicking THEN "crashed" ELSE "exited"
    /\ UNCHANGED <<build, pc, panicking, peer, rdVars, hb_length, seqVars,
                   ghostVars, hbVars, slVars, SendQueueClosed, ShutDownOnce,
                   appNext, outVars, selVars>>

(***************************************************************************)
(* The environment.                                                        *)
(***************************************************************************)
\* An application sender hands its next message to SendQueue (src/main.go
\* line 33: "Outgoing websocket messages should be sent here").
AppSubmit(a) ==
    /\ Running("mutex")
    /\ appNext[a] < MaxSubmit
    /\ ChanSend(Msg(a, appNext[a] + 1, 0))
    /\ appNext' = IF SendQueueClosed THEN appNext
                  ELSE [appNext EXCEPT ![a] = @ + 1]
    /\ UNCHANGED <<build, pc, panicking, connVars, peer, rdVars, hb_length,
                   seqVars, ghostVars, hbVars, SendQueueClosed, ShutDownOnce, outVars,
                   selVars>>

\* SIGINT.  Without signal.Notify the Go runtime ends the process at once
\* and no deferred call runs; with it the signal is buffered in sigchan.
Interrupt ==
    /\ proc = "running"
    /\ IF notify
       THEN sigchan' = TRUE /\ proc' = proc
       ELSE sigchan' = sigchan /\ proc' = "killed"
    /\ UNCHANGED <<build, pc, panicking, connVars, peer, rdVars, hb_length,
                   seqVars, ghostVars, hbVars, slVars, SendQueueClosed, ShutDownOnce,
                   appNext, outVars, rbpc, RecvQueueClosed, notify, handlers>>


(***************************************************************************)
(* src/unnamed/part_000: init(), the handshake, lines 253-335.             *)
(***************************************************************************)
\* lines 302-315: receive the first payload, get the heartbeat interval.
\* A panic in init() ends the process; nothing is deferred yet.
InitHello ==
    /\ Running("select") /\ pc = "hello"
    /\ HandshakeReceive(TRUE)
    /\ IF HelloPanics(build, payload')
       THEN proc' = "crashed" /\ pc' = pc /\ hb_length' = hb_length
       ELSE /\ hb_length' = HeartbeatInterval(payload')
            /\ pc' = "login"
            /\ proc' = proc
    /\ hello' = raw'
    /\ UNCHANGED <<build, panicking, connVars, seqVars, ready, lastSeq,
                   hbVars, slVars, SendQueueClosed, ShutDownOnce, appNext,
                   outVars, selVars>>

\* lines 317-334: send the Identify message; init() returns, main() starts.
InitLogin ==
    /\ Running("select") /\ pc = "login"
    /\ Send(LoginMsg)
    /\ pc' = "main"
    /\ UNCHANGED <<build, proc, panicking, connVars, peer, rdVars, hb_length,
                   seqVars, ghostVars, hbVars, slVars, SendQueueClosed, ShutDownOnce,
                   appNext, selVars>>

(***************************************************************************)
(* src/unnamed/part_000: main(), lines 179-235.                            *)
(***************************************************************************)
\* lines 179-192: defer ws.Close(), signal.Notify, go ReadBuffer() (whose
\* payload is a fresh variable), seqNo, the pacemaker ticker.
SelStart ==
    /\ Running("select") /\ pc = "main"
    /\ notify' = TRUE
    /\ rbpc' = "recv"
    /\ payload' = ZeroPayload
    /\ raw' = NoEnvelope
    /\ seq_no' = 0
    /\ pc' = "select"
    /\ UNCHANGED <<build, proc, panicking, connVars, peer, nread, hb_length,
                   seq_lock, ghostVars, hbVars, slVars, SendQueueClosed,
                   ShutDownOnce, appNext, outVars, RecvQueueClosed, sigchan,
                   handlers>>

\* The argument of `go handleMessage(msg)`: a copy of the Payload, kept as
\* the fields handleMessage reads.
HandlerArg(msg) == [T |-> msg.T, D |-> msg.D]

\* A dispatch test that lets only the event tag handleMessage knows through.
IsDispatchKnownTag(msg) ==
    msg.Op # Absent /\ msg.Op = 0 /\ msg.T = "MESSAGE_CREATE"

\* every value HandlerArg can take
HandlerArgs ==
    [T : {"", "READY", "MESSAGE_CREATE", "TYPING_START"},
     D : {"nil", "text", "ping", "hb0", "hb41250"}]

\* every envelope that has an op taken for an event
IsDispatchAnyOp(msg) == msg.Op # Absent

\* line 211: is the message handed to handleMessage
IsDispatch(msg) == msg.Op # Absent /\ msg.Op = 0

\* lines 198-213: case msg, open := <-RecvQueue
SelRecv ==
    /\ Running("select") /\ pc = "select"
    /\ \/ /\ RecvQueueClosed
          /\ pc' = "return"
          /\ UNCHANGED <<seqVars, ghostVars, rbpc, handlers>>
       \/ /\ rbpc = "push"
          /\ rbpc' = "recv"
          /\ seq_no' = IF LoopUpdates(payload) THEN payload.S ELSE seq_no
          /\ IF ready.got = "no"
             THEN ready' = ReadyGot(raw, hbCount) /\ lastSeq' = lastSeq
             ELSE ready' = ready /\ lastSeq' = NextLast(lastSeq, raw)
          /\ hello' = hello
          /\ handlers' = IF IsDispatch(payload)
                          THEN handlers (+) SetToBag({HandlerArg(payload)})
                          ELSE handlers
          /\ UNCHANGED <<pc, seq_lock>>
    /\ UNCHANGED <<build, proc, panicking, connVars, peer, rdVars, hb_length,
                   hbVars, slVars, SendQueueClosed, ShutDownOnce, appNext,
                   outVars, RecvQueueClosed, notify, sigchan>>

\* lines 216-222: case msg, open := <-SendQueue.  The channel is closed, or
\* an application sender is handing a message over, which main() writes.
SelSend ==
    /\ Running("select") /\ pc = "select"
    /\ \/ /\ SendQueueClosed
          /\ pc' = "return"
          /\ UNCHANGED <<appNext, outVars>>
       \/ /\ ~SendQueueClosed
          /\ \E a \in Submitters :
                /\ appNext[a] < MaxSubmit
                /\ Send(Msg(a, appNext[a] + 1, 0))
                /\ appNext' = [appNext EXCEPT ![a] = @ + 1]
          /\ pc' = pc
    /\ UNCHANGED <<build, proc, panicking, connVars, peer, rdVars, hb_length,
                   seqVars, ghostVars, hbVars, slVars, SendQueueClosed, ShutDownOnce,
                   selVars>>

\* lines 225-228: case <-pacemaker
SelTick ==
    /\ Running("select") /\ pc = "select"
    /\ hbCount < MaxHeartbeats
    /\ hbCount' = hbCount + 1
    /\ Send(Msg("hb", hbCount + 1, seq_no))
    /\ UNCHANGED <<build, proc, pc, panicking, connVars, peer, rdVars,
                   hb_length, seqVars, ghostVars, hbpc, temp, slVars, SendQueueClosed,
                   ShutDownOnce, appNext, selVars>>

\* lines 231-232: case <-sigchan
SelSignal ==
    /\ Running("select") /\ pc = "select"
    /\ sigchan
    /\ sigchan' = FALSE
    /\ pc' = "return"
    /\ UNCHANGED <<build, proc, panicking, connVars, peer, rdVars, hb_length,
                   seqVars, ghostVars, hbVars, slVars, SendQueueClosed, ShutDownOnce,
                   appNext, outVars, rbpc, RecvQueueClosed, notify, handlers>>

\* line 181: the deferred ws.Close(), on return from main().
SelClose ==
    /\ Running("select") /\ pc = "return"
    /\ ws' = "closed"
    /\ closeCount' = closeCount + 1
    /\ proc' = "exited"
    /\ UNCHANGED <<build, pc, panicking, peer, rdVars, hb_length, seqVars, ghostVars,
                   hbVars, slVars, SendQueueClosed, ShutDownOnce, appNext,
                   outVars, selVars>>

(***************************************************************************)
(* src/unnamed/part_000: ReadBuffer, lines 237-251.                        *)
(***************************************************************************)
\* lines 242-249: Receive; an error ends the loop and the deferred
\* close(RecvQueue) runs; a payload waits to be pushed to RecvQueue.
RbReceive ==
    /\ Running("select") /\ rbpc = "recv"
    /\ \/ /\ LoopReceiveOk
          /\ rbpc' = "push"
          /\ RecvQueueClosed' = RecvQueueClosed
          /\ ready' = ready
       \/ /\ LoopReceiveErr
          /\ rbpc' = "done"
          /\ RecvQueueClosed' = TRUE
          /\ ready' = IF ready.got = "no" THEN ReadyErr ELSE ready
    /\ UNCHANGED <<build, proc, pc, panicking, connVars, hb_length,
                   seqVars, hello, lastSeq, hbVars, slVars, SendQueueClosed, ShutDownOnce,
                   appNext, outVars, notify, sigchan, handlers>>

(***************************************************************************)
(* src/unnamed/part_000: handleMessage, lines 129-144, one goroutine per   *)
(* forwarded payload.  *msg.D dereferences nil when D is nil, and a panic  *)
(* in a goroutine ends the process.                                        *)
(***************************************************************************)
\* line 134: json.Unmarshal(*msg.D, &content) under msg.T == "MESSAGE_CREATE"
HandlerPanics(msg) == msg.T = "MESSAGE_CREATE" /\ msg.D = "nil"

handleMessage(msg) ==
    /\ Running("select")
    /\ BagIn(msg, handlers)
    /\ handlers' = handlers (-) SetToBag({msg})
    /\ proc' = IF HandlerPanics(msg) THEN "crashed" ELSE proc
    /\ UNCHANGED <<build, pc, panicking, connVars, peer, rdVars, hb_length,
                   seqVars, ghostVars, hbVars, slVars, SendQueueClosed, ShutDownOnce,
                   appNext, outVars, rbpc, RecvQueueClosed, notify, sigchan>>

\* An external collaborator closes SendQueue (part_000 line 217 expects it).
ExternalClose ==
    /\ Running("select")
    /\ ~SendQueueClosed
    /\ SendQueueClosed' = TRUE
    /\ UNCHANGED <<build, proc, pc, panicking, connVars, peer, rdVars,
                   hb_length, seqVars, ghostVars, hbVars, slVars, ShutDownOnce, appNext,
                   outVars, selVars>>

(***************************************************************************)
(* The specification.                                                      *)
(***************************************************************************)
Next ==
    \/ MainHello \/ MainLogin \/ MainReady
    \/ MainReadyLock \/ MainReadyWrite \/ MainReadyUnlock \/ MainLogSeq
    \/ MainGoHeartbeats \/ MainGoSendLoop
    \/ MainRecv \/ MainLock \/ MainWrite \/ MainUnlock
    \/ MainDeferred \/ ShutDownCloseQueue \/ ShutDownClose \/ MainReturn
    \/ HbSleep \/ HbLock \/ HbFormat \/ HbUnlock \/ HbSend
    \/ SlSend \/ SlExit
    \/ \E a \in Submitters : AppSubmit(a)
    \/ LegacyRecv \/ LegacyLock \/ LegacyWrite \/ LegacyUnlock \/ LegacyClose
    \/ Interrupt
    \/ InitHello \/ InitLogin
    \/ SelStart \/ SelRecv \/ SelSend \/ SelTick \/ SelSignal \/ SelClose
    \/ RbReceive
    \/ \E msg \in HandlerArgs : handleMessage(msg)
    \/ ExternalClose

Spec == Init /\ [][Next]_vars

(***************************************************************************)
(* src/unnamed/part_000, the select build from its second read on.  The    *)
(* session starts where ReadBuffer has read READY as its first envelope    *)
(* (line 242), main() has taken it from RecvQueue (lines 198-213) and the  *)
(* handler started for it has returned: ReadBuffer's payload, declared     *)
(* once at line 240, holds the fields of READY, and ReadBuffer is at its   *)
(* next Receive.  nread counts the reads from there on.                    *)
(***************************************************************************)
InitPumped ==
    /\ build = "select"
    /\ proc = "running"
    /\ pc = "select"
    /\ panicking = FALSE
    /\ ws = "open"
    /\ closeCount = 0
    /\ peer = "up"
    /\ nread = 0
    /\ raw \in ReadyEnvelopes
    /\ payload = Decode("select", ZeroPayload, raw)
    /\ hb_length = 41250
    /\ seq_no = (IF LoopUpdates(payload) THEN payload.S ELSE 0)
    /\ seq_lock = "free"
    /\ hello = Envelope(10, Absent, "-", "hb41250")
    /\ ready = ReadyGot(raw, 0)
    /\ lastSeq = Absent
    /\ hbpc = "off"
    /\ temp = 0
    /\ hbCount = 0
    /\ slpc = "off"
    /\ slmsg = NoMsg
    /\ SendQueueClosed = FALSE
    /\ ShutDownOnce = FALSE
    /\ appNext = [a \in Submitters |-> 0]
    /\ wire = <<LoginMsg>>
    /\ rbpc = "recv"
    /\ RecvQueueClosed = FALSE
    /\ notify = TRUE
    /\ sigchan = FALSE
    /\ handlers = EmptyBag

NextPumped ==
    \/ SelRecv \/ SelSend \/ SelTick \/ SelSignal \/ SelClose
    \/ RbReceive
    \/ \E msg \in HandlerArgs : handleMessage(msg)
    \/ ExternalClose
    \/ Interrupt

SpecPumped == InitPumped /\ [][NextPumped]_vars

(***************************************************************************)
(* Properties.                                                             *)
(***************************************************************************)
LoopPcs == {"recv", "lock", "write", "unlock", "select"}

\* C1: once the inbound loop has processed envelopes whose sequence numbers
\* are strictly increasing, the last of them being s_k, a heartbeat that
\* SendHeartbeats constructs carries s_k.
C1_HeartbeatCarriesLatest ==
    [][(hbpc = "format" /\ hbpc' = "unlock"
        /\ lastSeq \notin {Absent, Unordered})
          => temp' = lastSeq]_vars

\* the loops of the session have been started
WasActive == slpc # "off" \/ rbpc # "off"

\* C2: Close is called on the connection exactly once in every execution:
\* never twice, and once when a session that was Active has ended.
C2_ClosedExactlyOnce ==
    /\ closeCount <= 1
    /\ (WasActive /\ proc # "running") => closeCount = 1

\* The messages each producer has handed to the outbound side.
Producers == Submitters \cup {"hb"}

Handed(f) ==
    IF f = "hb"
    THEN IF hbpc \in {"unlock", "send"} THEN hbCount - 1 ELSE hbCount
    ELSE appNext[f]

Written(f, k) == \E i \in DOMAIN wire : wire[i].from = f /\ wire[i].n = k

InFlight(f, k) == slmsg.from = f /\ slmsg.n = k

\* no message twice, none before an earlier one of its producer, none that
\* was not handed over
InOrder ==
    /\ \A i, j \in DOMAIN wire :
          (i < j /\ wire[i].from = wire[j].from) => wire[i].n < wire[j].n
    /\ \A i \in DOMAIN wire :
          wire[i].from \in Producers => wire[i].n <= Handed(wire[i].from)

NoDrop ==
    \A f \in Producers : \A k \in 1..Handed(f) : Written(f, k) \/ InFlight(f, k)

BadInterval(e) == e.d # "hb41250"

C5_NoReadyNeverActive ==
    ready.got = "err"
        => /\ hbpc = "off" /\ slpc = "off"
           /\ hbCount = 0
           /\ pc \notin {"recv", "lock", "write", "unlock"}

\* the heartbeats that exist: written, taken by SendLoop, or constructed
HbMessages ==
    {wire[i] : i \in DOMAIN wire} \cup {slmsg}
        \cup (IF hbpc \in {"unlock", "send"}
              THEN {Msg("hb", hbCount, temp)} ELSE {})

\* C6: after a READY with s = n and until the inbound loop has processed a
\* later envelope with an s, the tracked sequence number is n and every
\* heartbeat constructed since carries n.
C6_ReadySeqTracked ==
    (ready.got = "yes" /\ ready.s # Absent /\ lastSeq = Absent)
        => /\ seq_no = ready.s
           /\ \A m \in HbMessages :
                 (m.from = "hb" /\ m.n > ready.hb) => m.d = ready.s

C6_Witness ==
    /\ ready.got = "yes" /\ ready.s = MaxSeq /\ lastSeq = Absent
    /\ nread > 0
    /\ \E i \in DOMAIN wire :
          wire[i].from = "hb" /\ wire[i].n > ready.hb /\ wire[i].d = MaxSeq

\* C7: no step of the inbound loop on an envelope without s changes the
\* tracked sequence number, whatever its opcode and the tracked value.
C7_NoSeqNoChange ==
    [][(NoSeq(raw') /\ pc' \in LoopPcs) => seq_no' = seq_no]_vars

C7_Witness ==
    /\ build = "mutex" /\ pc = "unlock"
    /\ NoSeq(raw) /\ raw.op = 11
    /\ seq_no = MaxSeq

\* C8: the inbound loop of part_000 hands every envelope with op = 0 to
\* handleMessage exactly once, with its tag, and goes on; a tag that
\* handleMessage does not know ends nothing.
C8_DispatchForwardedOnce ==
    [][/\ (rbpc = "push" /\ rbpc' = "recv" /\ raw.op = 0)
          => /\ handlers' = handlers
                              (+) SetToBag({[T |-> raw.t, D |-> payload.D]})
             /\ pc' = pc /\ proc' = proc
       /\ BagCardinality(handlers') > BagCardinality(handlers)
          => (rbpc = "push" /\ rbpc' = "recv"
              /\ BagCardinality(handlers') = BagCardinality(handlers) + 1)
       /\ (BagCardinality(handlers') < BagCardinality(handlers)
           /\ proc' # proc)
          => \E h \in BagToSet(handlers) : h.T = "MESSAGE_CREATE"]_vars

C8_Witness ==
    /\ build = "select" /\ proc = "running" /\ pc = "select"
    /\ handlers = EmptyBag
    /\ raw.op = 0 /\ raw.t = "TYPING_START"
    /\ rbpc = "recv" /\ nread = MaxInbound

\* ShutDown has been called, or main() of part_000 is returning
Closing ==
    \/ ShutDownOnce
    \/ build = "select" /\ pc = "return"
    \/ proc # "running"

HbWritten(w) == Cardinality({i \in DOMAIN w : w[i].from = "hb"})

\* C9: once shutdown has been requested no heartbeat is constructed, handed
\* to the outbound side, or written.
C9_NoHeartbeatWhenClosing ==
    [][Closing => /\ hbCount' = hbCount
                  /\ ~(slmsg'.from = "hb" /\ slmsg' # slmsg)
                  /\ HbWritten(wire') = HbWritten(wire)]_vars

\* C10: in src/main.go every access to seq_no that another goroutine can
\* run against is made by the holder of seq_lock, so no two goroutines are
\* at seq_no together; the read of line 204 is made before SendHeartbeats
\* exists.
C10_SeqNoUnderLock ==
    build = "mutex"
        => /\ pc \in {"ready_write", "write"} => seq_lock = "main"
           /\ hbpc = "format" => seq_lock = "hb"
           /\ ~(pc \in {"ready_write", "write", "log_seq"} /\ hbpc = "format")
           /\ pc = "log_seq" => hbpc = "off"

C10_Witness ==
    /\ build = "mutex" /\ proc = "running"
    /\ pc = "write" /\ seq_lock = "main"
    /\ hbpc = "lock"

\* C11: within one session of the mutex or the select build the tracked
\* sequence number never decreases, whatever envelopes arrive: every step
\* leaves seq_no greater than or equal to what it was.
C11_SeqNeverDecreases ==
    [][(build \in {"mutex", "select"}) => (seq_no' >= seq_no)]_vars

\* C12: a write to a connection that is no longer connected stops the
\* sender: SendLoop ends instead of going back to its range, and the select
\* loop of the other build leaves for its return.
WriteStep ==
    \/ build = "mutex" /\ slpc = "write" /\ slpc' # "write"
    \/ build = "select" /\ (appNext' # appNext \/ hbCount' # hbCount)

C12_FailedWriteStopsSender ==
    [][(WriteStep /\ ~Connected) =>
          IF build = "mutex" THEN slpc' = "done" ELSE pc' = "return"]_vars

\* C13: once a failed read has made ReadBuffer close RecvQueue, the session
\* of the select build ends only as Closed: when the process is over, main
\* has returned and its deferred Close has released the connection.
C13_ReadFailureEndsClosed ==
    (build = "select" /\ RecvQueueClosed /\ proc # "running") =>
        (proc = "exited" /\ closeCount = 1 /\ ws = "closed")

\* C14: with the peer still there, once SendQueue is closed and SendLoop has
\* ended, or the process has exited, every message that was handed to
\* SendQueue has been written to the connection.
C14_SubmittedAllWritten ==
    (/\ build = "mutex" /\ peer = "up"
     /\ SendQueueClosed
     /\ (slpc = "done" \/ proc = "exited")) =>
        \A f \in Producers : \A k \in 1..Handed(f) : Written(f, k)

\* C15: the handshake of src/main.go goes on past the read that follows
\* Identify only when the envelope it received is a Ready event (op = 0,
\* t = "READY"); any other envelope is fatal.
C15_OnlyReadyEndsHandshake ==
    [][(/\ build = "mutex" /\ pc = "ready" /\ pc' = "ready_lock"
        /\ raw' # NoEnvelope) =>
           (raw'.op = 0 /\ raw'.t = "READY")]_vars

\* C16: a step of a handler goroutine, whatever the event it was started
\* for, leaves the process running, so that the select loop and ReadBuffer
\* go on with the following envelopes.
C16_HandlerKeepsSession ==
    [][(build = "select"
        /\ BagCardinality(handlers') < BagCardinality(handlers)) =>
           proc' = "running"]_vars

\* C17: a submit to SendQueue never waits for SendLoop: whenever
\* SendHeartbeats is at its send on the open queue, and SendLoop has been
\* started, the send can complete at once.
C17_SubmitNeverWaits ==
    (/\ Running("mutex") /\ hbpc = "send"
     /\ ~SendQueueClosed /\ slpc # "off") =>
        slpc = "range"

\* main() is in its loop: the session is Active
Active ==
    build \in {"mutex", "select"} /\ proc = "running" /\ pc \in LoopPcs

\* C18: the session leaves Active only into its closing path: the step that
\* ends Active takes main() out of its loop to the deferred shutdown or to
\* its return, with the process still running.
C18_LeavesActiveOnlyToClosing ==
    [][(Active /\ ~Active') =>
          (proc' = "running" /\ pc' \in {"deferred", "return"})]_vars

\* C19: when a stop signal has ended the process of src/main.go after its
\* loops were started, the shutdown has been carried out: SendQueue is
\* closed, SendLoop has left its loop, and the connection is closed.
C19_StopSignalShutsDown ==
    (build = "mutex" /\ WasActive /\ proc = "killed") =>
        (/\ SendQueueClosed
         /\ slpc = "done"
         /\ ws = "closed")

\* C20: the heartbeat sender, the send loop and the inbound read loop exist
\* only once the Ready envelope has been received and its sequence number
\* stored: none of them has been started, and no heartbeat has been
\* constructed, in a state where that has not happened.
C20_LoopsOnlyAfterReady ==
    (/\ build \in {"mutex", "select"}
     /\ (hbpc # "off" \/ slpc # "off" \/ rbpc # "off" \/ hbCount > 0)) =>
        ready.got = "yes"

\* C21: an envelope that carries s = 0 is one that carries a sequence
\* number: when the inbound loop of src/main.go is back at its Receive after
\* such an envelope without having gone to the store, or the select loop of
\* part_000 has taken one from RecvQueue, the tracked sequence number is 0.
C21_ZeroSeqIsStored ==
    [][/\ (/\ build = "mutex" /\ pc = "recv" /\ pc' = "recv"
           /\ nread' = nread + 1 /\ raw'.s = 0) => seq_no' = 0
       /\ (/\ build = "select" /\ rbpc = "push" /\ rbpc' = "recv"
           /\ raw.s = 0) => seq_no' = 0]_vars

\* C22: an envelope whose op is absent is never forwarded to the event
\* handler, whatever envelopes preceded it: when main() of part_000 takes
\* one from RecvQueue, no handler is started.
C22_AbsentOpNeverForwarded ==
    [][(/\ build = "select" /\ rbpc = "push" /\ rbpc' = "recv"
        /\ raw.op = Absent) =>
           handlers' = handlers]_vars

\* part_000 lines 201-203: on the closed RecvQueue main() logs "exiting
\* before any messages received, probable login failure" when seqNo is 0
LogsLoginFailure == seq_no = 0

\* the step of main() that finds RecvQueue closed (and cannot be the one
\* that finds SendQueue closed or takes a signal)
RecvQueueFoundClosed ==
    /\ build = "select" /\ pc = "select" /\ pc' = "return"
    /\ RecvQueueClosed /\ ~SendQueueClosed /\ sigchan' = sigchan

\* C23: a session of part_000 that received a Dispatch, the last opcode
\* ReadBuffer decoded being 0 and main() having taken the envelope, does not
\* record the login-failure error when the inbound loop has ended.
C23_NoLoginFailureAfterDispatch ==
    [][(RecvQueueFoundClosed /\ payload.Op = 0 /\ ready.got = "yes") =>
          ~LogsLoginFailure]_vars

\* C24: after the handshake one goroutine writes the connection (SendLoop
\* in src/main.go, the select loop of main() in part_000), one goroutine
\* reads it (main() in src/main.go, ReadBuffer in part_000), and the tracked
\* sequence number is stored only by the goroutine that processes the
\* inbound envelopes; the writer of the handshake is never inside a write
\* together with SendLoop, nor its reader inside a read together with
\* ReadBuffer.
C24_SoleWriterSoleReader ==
    [][/\ (wire' # wire /\ pc # "login") =>
            \/ /\ build = "mutex" /\ slpc = "write" /\ slpc' = "range"
               /\ pc' = pc /\ hbpc' = hbpc
            \/ /\ build = "select" /\ pc = "select" /\ pc' = "select"
               /\ rbpc' = rbpc /\ handlers' = handlers
       /\ ((nread' # nread \/ raw' # raw)
           /\ pc \notin {"hello", "ready", "main"}) =>
            \/ /\ build \in {"mutex", "legacy"} /\ pc = "recv"
               /\ slpc' = slpc /\ hbpc' = hbpc
            \/ /\ build = "select" /\ rbpc = "recv"
               /\ pc' = pc /\ handlers' = handlers
       /\ (seq_no' # seq_no) =>
            \/ /\ build \in {"mutex", "legacy"}
               /\ pc \in {"ready_write", "write"}
               /\ slpc' = slpc /\ hbpc' = hbpc
            \/ /\ build = "select" /\ pc = "select" /\ rbpc = "push"
       /\ ~(pc = "login" /\ slpc = "write")
       /\ ~(pc \in {"hello", "ready", "recv"} /\ rbpc = "recv")]_vars

C24_Witness ==
    /\ build = "mutex" /\ proc = "running"
    /\ slpc = "write" /\ pc = "write"
    /\ nread >= 1 /\ Len(wire) >= 2

\* C25: an envelope whose opcode is not 0 is not an error.  In part_000
\* ReadBuffer hands it to main() and main() takes it without starting a
\* handler, stays in its loop, and ReadBuffer is back at its Receive; in
\* src/main.go the loop stays in the loop; the process goes on.
C25_OtherOpcodeGoesOn ==
    [][/\ (/\ build = "select" /\ rbpc = "recv" /\ nread' = nread + 1
           /\ raw' # NoEnvelope /\ raw'.op \notin {0, Absent}) =>
              (rbpc' = "push" /\ proc' = "running")
       /\ (/\ build = "select" /\ rbpc = "push" /\ rbpc' = "recv"
           /\ raw.op \notin {0, Absent}) =>
              (handlers' = handlers /\ pc' = "select" /\ proc' = "running")
       /\ (/\ build = "mutex" /\ pc = "recv" /\ nread' = nread + 1
           /\ raw' # NoEnvelope /\ raw'.op \notin {0, Absent}) =>
              (pc' \in {"recv", "lock"} /\ proc' = "running")]_vars

C25_Witness ==
    /\ build = "select" /\ proc = "running"
    /\ pc = "select" /\ rbpc = "recv"
    /\ nread = 1 /\ raw.op = 11
    /\ handlers = EmptyBag

\* C26: the Payload that the reader hands on after a successful read shows
\* only the envelope just read: a field the envelope does not carry is
\* absent or zero in it, never the value of an earlier envelope.
C26_PayloadShowsLastEnvelope ==
    [][(raw' # raw /\ raw' # NoEnvelope /\ build \in {"mutex", "select"}) =>
          /\ (raw'.op = Absent => payload'.Op = Absent)
          /\ (NoSeq(raw') => payload'.S = 0)
          /\ (raw'.t = "-" => payload'.T = "")
          /\ (raw'.d = "-" => payload'.D = "nil")]_vars

\* C27: no goroutine of src/main.go sends on SendQueue once it is closed:
\* with the queue closed the only panic that ends the process is the one
\* main() is already unwinding from, never the panic of a send on the closed
\* channel.
C27_NoSendOnClosedQueue ==
    [][(/\ build = "mutex" /\ SendQueueClosed /\ proc = "running"
        /\ ~(pc = "return" /\ panicking)) =>
           proc' # "crashed"]_vars

\* C28: once Close has been called on the connection, no goroutine passes a
\* message to websocket.Message.Send.
C28_NoWriteAfterClose ==
    [][(ws = "closed" /\ proc = "running") => ~WriteStep]_vars

\* the first envelope passed the checks of the handshake
HelloAccepted == hello.op # Absent /\ ~BadInterval(hello)

\* C29: Identify is written at most once, only after a Hello that passed
\* the checks of the handshake, and as the first text on the connection,
\* before every heartbeat and every queued message; a session that is past
\* its Identify step on a connection still open at both ends has written it.
C29_IdentifyOnceAndFirst ==
    /\ Cardinality({i \in DOMAIN wire : wire[i] = LoginMsg}) <= 1
    /\ wire # <<>> => (wire[1] = LoginMsg /\ HelloAccepted)
    /\ (Connected /\ HelloAccepted /\ pc \notin {"hello", "login"})
          => (wire # <<>> /\ wire[1] = LoginMsg)

C29_Witness ==
    /\ build = "select" /\ proc = "running"
    /\ Len(wire) = 3 /\ wire[1] = LoginMsg
    /\ wire[2].from = "hb" /\ wire[3].from = "A"

====
